---- MODULE Spec2Model ----
(***************************************************************************)
(* Model of the two SimpleSwap probe runners:                              *)
(*   basic    : src/test-simpleswap.py   (SimpleSwapTester)                *)
(*   adaptive : src/adaptive-tester.py   (AdaptiveSimpleSwapTester)        *)
(* Strings the code searches in (URLs, console lines, notes) are sequences *)
(* of tokens, so that "x in y" is a real contiguous-subsequence search.    *)
(* Every awaited browser operation either completes or raises; what the    *)
(* page does after the click (where it navigates, what it logs) is chosen  *)
(* by the environment.  Timestamps, print() calls, the fixed sleeps and    *)
(* the insight list (which no control flow reads) are left out.            *)
(***************************************************************************)
EXTENDS Integers, Sequences, FiniteSets, TLC

\* ------------------------------------------------------------- bounds
\* Length of the strategy list a run iterates over.
MaxStrategies == 2
\* Console messages the page emits over a whole run.
MaxLogs == 2
\* Polling iterations of the monitoring phase (range(10) / range(15)).
MaxPoll == 1

\* -------------------------------------------------- program constants
\* "if attempt < 2" : the retry guard.
MaxAttempts == 2
\* console_logs[-5:] : the window searched for a recent error.
RecentWindow == 5
\* console_logs[-10:] : the tail stored in a regular result.
ResultLogTail == 10
\* console_logs[-5:] : the tail stored in an exception result (adaptive).
ExcLogTail == 5

\* variant  : which script runs ("basic" / "adaptive")
\* runPc    : where run_all_tests / run_adaptive_tests stands
\* i        : index of the loop over self.strategies
\* stack    : the activations of test_strategy(_with_learning), innermost last
\* ctxs     : every context new_context() returned, open or not, with the
\*            number of close() calls awaited on it
\* results  : self.results
\* document : what json.dump wrote at the end of the run
\* nlogs    : console messages delivered so far in the run
\* escaped  : str(e) of the exception that left the run, if any
\* trace    : history of the calls made (not read by the program)
VARIABLES variant, runPc, i, stack, ctxs, results, document, nlogs, escaped, trace

vars == <<variant, runPc, i, stack, ctxs, results, document, nlogs, escaped, trace>>

\* ------------------------------------------------------------ strings
AllStrategies ==
  <<"basic", "withProvider", "buyInterface", "fixedRate", "withWallet",
    "buySell", "allLocks", "altCurrency", "directMercuryo", "iframe">>

\* The list of the run: the first labels of the fixed list, closed by its
\* last label "iframe" (the one label the basic variant treats specially).
strategies ==
  [k \in 1..MaxStrategies |->
     IF k = MaxStrategies THEN AllStrategies[Len(AllStrategies)] ELSE AllStrategies[k]]

base_url == <<"https://", "blinds123.github", ".io", "/", "simpleswap", "-realtime-test">>

\* The literal "simpleswap.io".
Domain == <<"simpleswap", ".io">>

\* The literal "workingUrl is not defined".
WorkingUrlErr == <<"workingUrl is not defined">>

\* Python's "needle in hay" for strings.
Contains(needle, hay) ==
  \E k \in 0..(Len(hay) - Len(needle)) : SubSeq(hay, k + 1, k + Len(needle)) = needle

LowerTok(t) ==
  CASE t = "Error" -> "error"
    [] t = "Reference" -> "reference"
    [] t = "Refused to frame" -> "refused to frame"
    [] OTHER -> t

\* str.lower()
Lower(s) == [k \in DOMAIN s |-> LowerTok(s[k])]

\* Python's seq[-n:]
LastN(s, n) == IF Len(s) <= n THEN s ELSE SubSeq(s, Len(s) - n + 1, Len(s))

\* f"{self.base_url}?strategy={strategy}" and, adaptive,
\* f"{self.base_url}?strategy={strategy}&t={cache_buster}"
RequestUrl(v, strategy) ==
  IF v = "adaptive"
    THEN base_url \o <<"?strategy=", strategy, "&t=", "<time>">>
    ELSE base_url \o <<"?strategy=", strategy>>

\* Where the page may be once the click handler has run.
SwapUrl == <<"https://", "simpleswap", ".io", "/exchange">>
OtherUrl == <<"https://", "other.example", "/">>
PageUrls(url) == {url, SwapUrl, OtherUrl}

\* Console messages (msg.type, msg.text) the page may emit.
Messages ==
  { [type |-> "error", text |-> <<"Reference", "Error", ": ", "workingUrl is not defined">>],
    [type |-> "error", text |-> <<"Refused to frame">>],
    [type |-> "log", text |-> <<"ready">>] }

\* f"[{msg.type}] {msg.text}"
log_console(msg) == <<"[", msg.type, "] ">> \o msg.text

\* Batches of at most n messages.
Batches(n) == UNION { [1..k -> Messages] : k \in 0..n }

\* "error" in log.lower()
IsErrorLog(log) == Contains(<<"error">>, Lower(log))

\* str(e) of the exception each operation raises.
ErrStr(op) ==
  CASE op = "new_context" -> "Browser.new_context: Target closed"
    [] op = "new_page" -> "BrowserContext.new_page: Target closed"
    [] op = "goto" -> "Page.goto: Timeout exceeded"
    [] op = "wait_for_selector" -> "Page.wait_for_selector: Timeout exceeded"
    [] op = "click" -> "Page.click: Timeout exceeded"
    [] op = "query_selector" -> "Page.query_selector: Target closed"
    [] op = "wait_for_load_state" -> "Page.wait_for_load_state: Timeout exceeded"
    [] op = "query_selector_all" -> "Page.query_selector_all: Target closed"
    [] op = "screenshot" -> "Page.screenshot: Target closed"
    [] OTHER -> "BrowserContext.close: Target closed"

\* ------------------------------------------------------------ results
\* The notes of the adaptive variant's three outcomes.
NoRedirectNotes == << <<"No redirect occurred">>, <<"Checking console logs for cause">> >>
RedirectNotes == << <<"Successful redirect">> >>
UnexpectedNotes(current_url) == << <<"Unexpected redirect to ">> \o current_url >>

\* Classify with every navigation away counted as a success.
ClassifyAnyRedirect(url, current_url) ==
  IF current_url = url
    THEN [kind |-> "same", success |-> FALSE, notes |-> NoRedirectNotes]
    ELSE IF Contains(Domain, current_url)
      THEN [kind |-> "redirect", success |-> TRUE, notes |-> RedirectNotes]
      ELSE [kind |-> "other", success |-> TRUE, notes |-> UnexpectedNotes(current_url)]

\* Classify with the URL compared against base_url instead of the request URL.
ClassifyAgainstBase(url, current_url) ==
  IF current_url = base_url
    THEN [kind |-> "same", success |-> FALSE, notes |-> NoRedirectNotes]
    ELSE IF Contains(Domain, current_url)
      THEN [kind |-> "redirect", success |-> TRUE, notes |-> RedirectNotes]
      ELSE [kind |-> "other", success |-> FALSE, notes |-> UnexpectedNotes(current_url)]

\* The if / elif / else on current_url of the adaptive variant.
Classify(url, current_url) ==
  IF current_url = url
    THEN [kind |-> "same", success |-> FALSE, notes |-> NoRedirectNotes]
    ELSE IF Contains(Domain, current_url)
      THEN [kind |-> "redirect", success |-> TRUE, notes |-> RedirectNotes]
      ELSE [kind |-> "other", success |-> FALSE, notes |-> UnexpectedNotes(current_url)]

\* MayRetry with the guard off by one.
MayRetryOnceMore(attempt) == attempt <= MaxAttempts

\* "if attempt < 2"
MayRetry(attempt) == attempt < MaxAttempts

\* ShouldRetry looking for workingUrl in any of the recent errors, not in the
\* last one.
ShouldRetryAnyRecent(attempt, console_logs) ==
  LET recent_errors == SelectSeq(LastN(console_logs, RecentWindow), IsErrorLog)
  IN /\ \E k \in DOMAIN recent_errors : Contains(WorkingUrlErr, recent_errors[k])
     /\ MayRetry(attempt)

\* recent_errors = [log for log in console_logs[-5:] if "error" in log.lower()];
\* the last of them names workingUrl, and the attempt may be repeated.
ShouldRetry(attempt, console_logs) ==
  LET recent_errors == SelectSeq(LastN(console_logs, RecentWindow), IsErrorLog)
  IN /\ recent_errors # <<>>
     /\ Contains(WorkingUrlErr, recent_errors[Len(recent_errors)])
     /\ MayRetry(attempt)

\* BasicSuccess without the "iframe" disjunct.
BasicSuccessByDomainOnly(strategy, page_url) == Contains(Domain, page_url)

\* "success": "simpleswap.io" in page.url or strategy == "iframe"
BasicSuccess(strategy, page_url) == Contains(Domain, page_url) \/ strategy = "iframe"

\* The result dict of the basic variant's normal path.
BasicResult(strategy, page_url, console_logs) ==
  [strategy |-> strategy,
   success |-> BasicSuccess(strategy, page_url),
   final_url |-> page_url,
   console_logs |-> LastN(console_logs, ResultLogTail),
   notes |-> <<>>]

\* The result dict of the basic variant's except clause.
BasicExcResult(strategy, e) ==
  [strategy |-> strategy,
   success |-> FALSE,
   error |-> e,
   console_logs |-> <<>>,
   notes |-> << <<"Exception occurred during testing">> >>]

\* The result dict of the adaptive variant's normal path.
AdaptiveResult(strategy, attempt, success, current_url, console_logs, notes) ==
  [strategy |-> strategy,
   attempt |-> attempt,
   success |-> success,
   final_url |-> current_url,
   console_logs |-> LastN(console_logs, ResultLogTail),
   notes |-> notes]

\* AdaptiveExcResult storing the exception's type name instead of str(e).
AdaptiveExcResultTypeName(strategy, attempt, e, console_logs) ==
  [strategy |-> strategy,
   attempt |-> attempt,
   success |-> FALSE,
   error |-> "Error",
   console_logs |-> LastN(console_logs, ExcLogTail),
   notes |-> << <<"Exception occurred">> >>]

\* The result dict of the adaptive variant's except clause.
AdaptiveExcResult(strategy, attempt, e, console_logs) ==
  [strategy |-> strategy,
   attempt |-> attempt,
   success |-> FALSE,
   error |-> e,
   console_logs |-> LastN(console_logs, ExcLogTail),
   notes |-> << <<"Exception occurred">> >>]

\* ------------------------------------------------------------- frames
\* One activation of test_strategy / test_strategy_with_learning.
NewFrame(attempt, call) ==
  [attempt |-> attempt, pc |-> "new_context", ctx |-> 0, url |-> <<>>,
   page_url |-> <<>>, current_url |-> <<>>, console_logs |-> <<>>,
   poll |-> 0, call |-> call]

\* History of one call, kept for stating the properties: the operations that
\* raised in it, whether it entered its try block, whether the URL read after
\* the click was the requested one, and how its retry (if any) went ("chosen"
\* when the retry branch is taken, "started" once the recursive call is made,
\* then "returned" or "raised").
NewCall(s, attempt) ==
  [s |-> s, attempt |-> attempt, entered |-> FALSE, raised |-> {},
   read |-> FALSE, stayed |-> FALSE, retry |-> "none"]

Top == stack[Len(stack)]
SetTop(f) == [stack EXCEPT ![Len(stack)] = f]
InCall(pc) == runPc = "in" /\ stack # <<>> /\ Top.pc = pc
strategy == strategies[i]

\* ExceptHandler that logs the failure and records nothing.
ExceptHandlerDrops(f, e) == results

\* "except Exception as e:" of frame f: the list with the failure appended.
ExceptHandler(f, e) ==
  Append(results,
         IF variant = "adaptive"
           THEN AdaptiveExcResult(strategy, f.attempt, e, f.console_logs)
           ELSE BasicExcResult(strategy, e))

\* An operation of the try block raised: except clause, then on to finally.
Caught(op) ==
  /\ results' = ExceptHandler(Top, ErrStr(op))
  /\ stack' = SetTop([Top EXCEPT !.pc = "finally"])
  /\ trace' = [trace EXCEPT ![Top.call].raised = @ \cup {op}]
  /\ UNCHANGED <<runPc, i, escaped>>

\* Propagate with the recursive call outside the caller's try block: nothing
\* catches the exception.
PropagateUncaught(op) ==
  /\ stack' = <<>>
  /\ runPc' = "aborted"
  /\ escaped' = ErrStr(op)
  /\ trace' = [trace EXCEPT ![Top.call].raised = @ \cup {op}]
  /\ UNCHANGED <<results, i>>

\* An operation outside the try block raised (new_context, new_page, the close
\* of the finally clause): the exception leaves the call.  A caller suspended
\* at its recursive call is inside its own try block and catches it; the loops
\* of run_all_tests / run_adaptive_tests catch nothing.
Propagate(op) ==
  IF Len(stack) > 1
    THEN LET parent == stack[Len(stack) - 1]
         IN /\ results' = ExceptHandler(parent, ErrStr(op))
            /\ stack' = SubSeq(stack, 1, Len(stack) - 2)
                          \o <<[parent EXCEPT !.pc = "finally"]>>
            /\ trace' = [trace EXCEPT ![Top.call].raised = @ \cup {op},
                                      ![parent.call].raised = @ \cup {op},
                                      ![parent.call].retry = "raised"]
            /\ UNCHANGED <<runPc, i, escaped>>
    ELSE /\ stack' = <<>>
         /\ runPc' = "aborted"
         /\ escaped' = ErrStr(op)
         /\ trace' = [trace EXCEPT ![Top.call].raised = @ \cup {op}]
         /\ UNCHANGED <<results, i>>

\* The call returns normally: to the caller's "return await ..." (whose finally
\* clause runs next), or to the loop, which moves to the next strategy.
Return ==
  IF Len(stack) > 1
    THEN LET parent == stack[Len(stack) - 1]
         IN /\ stack' = SubSeq(stack, 1, Len(stack) - 2)
                          \o <<[parent EXCEPT !.pc = "finally"]>>
            /\ trace' = [trace EXCEPT ![parent.call].retry = "returned"]
            /\ UNCHANGED <<results, runPc, i, escaped>>
    ELSE /\ stack' = <<>>
         /\ i' = i + 1
         /\ runPc' = IF i = Len(strategies) THEN "close_browser" ELSE "loop"
         /\ UNCHANGED <<results, trace, escaped>>

\* A step of the top call that only moves it on.
Goes(f) ==
  /\ stack' = SetTop(f)
  /\ UNCHANGED <<results, trace, runPc, i, escaped>>

\* await context.close(): it completes and the context is closed, or it raises
\* and the context stays as it was.  Closing a closed context completes or
\* raises, by the library's version.
CloseOutcomes(c) ==
  IF c.open
    THEN { [ctx |-> [open |-> FALSE, closes |-> c.closes + 1], raised |-> FALSE],
           [ctx |-> [open |-> TRUE, closes |-> c.closes + 1], raised |-> TRUE] }
    ELSE { [ctx |-> [open |-> FALSE, closes |-> c.closes + 1], raised |-> FALSE],
           [ctx |-> [open |-> FALSE, closes |-> c.closes + 1], raised |-> TRUE] }

\* The close of the retry branch, before the recursive call.
RetryCloseOutcomes(c) == CloseOutcomes(c)

\* -------------------------------------------------------------- state
Init ==
  /\ variant \in {"basic", "adaptive"}
  /\ runPc = "loop"
  /\ i = 1
  /\ stack = <<>>
  /\ ctxs = <<>>
  /\ results = <<>>
  /\ document = <<>>
  /\ nlogs = 0
  /\ escaped = ""
  /\ trace = <<>>

\* ------------------------------------------------------------ actions
\* "for strategy in self.strategies: await self.test_strategy(browser, strategy)"
StartStrategy ==
  /\ runPc = "loop"
  /\ runPc' = "in"
  /\ stack' = <<NewFrame(1, Len(trace) + 1)>>
  /\ trace' = Append(trace, NewCall(i, 1))
  /\ UNCHANGED <<variant, i, ctxs, results, document, nlogs, escaped>>

\* context = await browser.new_context()      (before the try block)
NewContext ==
  /\ InCall("new_context")
  /\ \/ /\ ctxs' = Append(ctxs, [open |-> TRUE, closes |-> 0])
        /\ Goes([Top EXCEPT !.pc = "new_page", !.ctx = Len(ctxs) + 1])
     \/ /\ Propagate("new_context")
        /\ UNCHANGED ctxs
  /\ UNCHANGED <<variant, document, nlogs>>

\* page = await context.new_page()           (before the try block)
NewPage ==
  /\ InCall("new_page")
  /\ \/ /\ stack' = SetTop([Top EXCEPT !.pc = "goto",
                                       !.url = RequestUrl(variant, strategy)])
        /\ trace' = [trace EXCEPT ![Top.call].entered = TRUE]
        /\ UNCHANGED <<results, runPc, i, escaped>>
     \/ Propagate("new_page")
  /\ UNCHANGED <<variant, ctxs, document, nlogs>>

\* await page.goto(url, wait_until="networkidle")
Goto ==
  /\ InCall("goto")
  /\ \/ Goes([Top EXCEPT !.pc = "wait_for_selector", !.page_url = Top.url])
     \/ Caught("goto")
  /\ UNCHANGED <<variant, ctxs, document, nlogs>>

\* await page.wait_for_selector("#buy-button")
WaitForSelector ==
  /\ InCall("wait_for_selector")
  /\ \/ Goes([Top EXCEPT !.pc = "click"])
     \/ Caught("wait_for_selector")
  /\ UNCHANGED <<variant, ctxs, document, nlogs>>

\* await page.click("#buy-button") and the fixed sleep after it: the page's
\* click handler runs, logs to the console and may navigate.
Click ==
  /\ InCall("click")
  /\ \/ \E u \in PageUrls(Top.url), msgs \in Batches(MaxLogs - nlogs) :
          /\ Goes([Top EXCEPT !.pc = "after_click",
                              !.page_url = u,
                              !.console_logs = @ \o [k \in DOMAIN msgs |-> log_console(msgs[k])]])
          /\ nlogs' = nlogs + Len(msgs)
     \/ /\ Caught("click")
        /\ UNCHANGED nlogs
  /\ UNCHANGED <<variant, ctxs, document>>

\* Adaptive: current_url = page.url and the if / elif / else on it.
ClassifyOutcome ==
  /\ variant = "adaptive"
  /\ InCall("after_click")
  /\ LET current_url == Top.page_url
         c == Classify(Top.url, current_url)
         seen == [trace EXCEPT ![Top.call].read = TRUE,
                               ![Top.call].stayed = (current_url = Top.url)]
     IN IF c.kind = "same" /\ ShouldRetry(Top.attempt, Top.console_logs)
          THEN /\ stack' = SetTop([Top EXCEPT !.pc = "retry_close", !.current_url = current_url])
               /\ trace' = [seen EXCEPT ![Top.call].retry = "chosen"]
               /\ UNCHANGED results
          ELSE IF c.kind = "redirect"
            THEN /\ stack' = SetTop([Top EXCEPT !.pc = "monitor", !.current_url = current_url])
                 /\ trace' = seen
                 /\ UNCHANGED results
            ELSE /\ stack' = SetTop([Top EXCEPT !.pc = "finally", !.current_url = current_url])
                 /\ trace' = seen
                 /\ results' = Append(results,
                                      AdaptiveResult(strategy, Top.attempt, c.success,
                                                     current_url, Top.console_logs, c.notes))
  /\ UNCHANGED <<variant, runPc, i, ctxs, document, nlogs, escaped>>

\* Adaptive: await context.close(); await asyncio.sleep(5);
\* return await self.test_strategy_with_learning(browser, strategy, attempt + 1)
RetryClose ==
  /\ InCall("retry_close")
  /\ \E o \in RetryCloseOutcomes(ctxs[Top.ctx]) :
       /\ ctxs' = [ctxs EXCEPT ![Top.ctx] = o.ctx]
       /\ IF o.raised
            THEN Caught("close")
            ELSE /\ stack' = SetTop([Top EXCEPT !.pc = "await_retry"])
                               \o <<NewFrame(Top.attempt + 1, Len(trace) + 1)>>
                 /\ trace' = Append([trace EXCEPT ![Top.call].retry = "started"],
                                    NewCall(i, Top.attempt + 1))
                 /\ UNCHANGED <<results, runPc, i, escaped>>
  /\ UNCHANGED <<variant, document, nlogs>>

\* Basic: the branch on strategy == "iframe" and, otherwise, on page.url.
BranchAfterClick ==
  /\ variant = "basic"
  /\ InCall("after_click")
  /\ LET current_url == Top.page_url
         seen == [trace EXCEPT ![Top.call].read = TRUE,
                               ![Top.call].stayed = (current_url = Top.url)]
     IN IF strategy = "iframe"
          THEN /\ stack' = SetTop([Top EXCEPT !.pc = "iframe"])
               /\ trace' = seen
               /\ UNCHANGED results
          ELSE IF Contains(Domain, current_url)
            THEN /\ stack' = SetTop([Top EXCEPT !.pc = "wait_for_load_state",
                                                !.current_url = current_url])
                 /\ trace' = seen
                 /\ UNCHANGED results
            ELSE /\ stack' = SetTop([Top EXCEPT !.pc = "finally", !.current_url = current_url])
                 /\ trace' = seen
                 /\ results' = Append(results,
                                      BasicResult(strategy, Top.page_url, Top.console_logs))
  /\ UNCHANGED <<variant, runPc, i, ctxs, document, nlogs, escaped>>

\* Basic: the search for the iframe overlay (its content probe catches its own
\* exceptions), then the result.
IframeProbe ==
  /\ InCall("iframe")
  /\ \/ /\ stack' = SetTop([Top EXCEPT !.pc = "finally"])
        /\ results' = Append(results, BasicResult(strategy, Top.page_url, Top.console_logs))
        /\ UNCHANGED <<trace, runPc, i, escaped>>
     \/ Caught("query_selector")
  /\ UNCHANGED <<variant, ctxs, document, nlogs>>

\* Basic: await page.wait_for_load_state("networkidle"); the destination may
\* itself move the page on while it loads.
WaitForLoadState ==
  /\ InCall("wait_for_load_state")
  /\ \/ \E u \in {Top.page_url, OtherUrl} :
          Goes([Top EXCEPT !.pc = "monitor", !.page_url = u])
     \/ Caught("wait_for_load_state")
  /\ UNCHANGED <<variant, ctxs, document, nlogs>>

\* "except Exception: continue" inside the polling loop: on to the next
\* iteration.
PollCaught == Goes([Top EXCEPT !.poll = @ + 1])

\* One iteration of the polling loop of monitor_simpleswap_page /
\* monitor_simpleswap_with_learning.
MonitorPoll ==
  /\ InCall("monitor")
  /\ Top.poll < MaxPoll
  /\ \/ Goes([Top EXCEPT !.poll = @ + 1])
     \/ \* a read on one element raises: caught inside the loop by both variants
        PollCaught
     \/ \* page.query_selector_all raises: caught inside the loop (adaptive), or
        \* outside every try of the monitor (basic), where it ends the monitoring
        IF variant = "adaptive"
          THEN PollCaught
          ELSE Caught("query_selector_all")
  /\ UNCHANGED <<variant, ctxs, document, nlogs>>

\* await page.screenshot(...) after the loop, then the result of the attempt.
Screenshot ==
  /\ InCall("monitor")
  /\ Top.poll = MaxPoll
  /\ \/ /\ stack' = SetTop([Top EXCEPT !.pc = "finally"])
        /\ results' =
             Append(results,
                    IF variant = "adaptive"
                      THEN LET c == Classify(Top.url, Top.current_url)
                           IN AdaptiveResult(strategy, Top.attempt, c.success,
                                             Top.current_url, Top.console_logs, c.notes)
                      ELSE BasicResult(strategy, Top.page_url, Top.console_logs))
        /\ UNCHANGED <<trace, runPc, i, escaped>>
     \/ Caught("screenshot")
  /\ UNCHANGED <<variant, ctxs, document, nlogs>>

\* finally: await context.close()
FinallyClose ==
  /\ InCall("finally")
  /\ \E o \in CloseOutcomes(ctxs[Top.ctx]) :
       /\ ctxs' = [ctxs EXCEPT ![Top.ctx] = o.ctx]
       /\ IF o.raised THEN Propagate("close") ELSE Return
  /\ UNCHANGED <<variant, document, nlogs>>

\* await browser.close() after the loop
BrowserClose ==
  /\ runPc = "close_browser"
  /\ runPc' = "save"
  /\ UNCHANGED <<variant, i, stack, ctxs, results, document, nlogs, escaped, trace>>

\* json.dump of the results to the results file
SaveResults ==
  /\ runPc = "save"
  /\ runPc' = "done"
  /\ document' = results
  /\ UNCHANGED <<variant, i, stack, ctxs, results, nlogs, escaped, trace>>

Next ==
  \/ StartStrategy
  \/ NewContext
  \/ NewPage
  \/ Goto
  \/ WaitForSelector
  \/ Click
  \/ ClassifyOutcome
  \/ RetryClose
  \/ BranchAfterClick
  \/ IframeProbe
  \/ WaitForLoadState
  \/ MonitorPoll
  \/ Screenshot
  \/ FinallyClose
  \/ BrowserClose
  \/ SaveResults

Spec == Init /\ [][Next]_vars

\* --------------------------------------------------------- properties
HasField(r, f) == f \in DOMAIN r
EntriesOf(label) == {n \in DOMAIN results : results[n].strategy = label}
CallsOf(k) == {c \in DOMAIN trace : trace[c].s = k}
OpenContexts == {c \in DOMAIN ctxs : ctxs[c].open}
LoopFinished == runPc \in {"close_browser", "save", "done"}
NoCallInFlight == stack = <<>>

\* C1: when the loop over the strategy list has finished, every label of the
\* list has at least one entry in the results, whatever happened in the
\* attempts (redirect, no redirect, retry, exception).
C1_EveryStrategyRecorded ==
  LoopFinished => \A k \in DOMAIN strategies : EntriesOf(strategies[k]) # {}

\* C1 witness: a finished run in which an operation raised and a retry ran.
C1_Witness ==
  /\ runPc = "done"
  /\ \E c \in DOMAIN trace : trace[c].raised # {}
  /\ \E c \in DOMAIN trace : trace[c].retry = "returned"

\* C2 (as claimed): basic variant, success holds exactly when final_url
\* contains "simpleswap.io", for every strategy, "iframe" included.
C2_SuccessIffDomain ==
  variant = "basic" =>
    \A n \in DOMAIN results :
      results[n].success <=>
        (HasField(results[n], "final_url") /\ Contains(Domain, results[n].final_url))

\* C2 (amended): basic variant, a result that carries a final_url has success
\* exactly when the final_url contains "simpleswap.io" or its strategy is
\* "iframe"; a result without final_url (the except clause) has success false.
C2_SuccessIffDomainOrIframe ==
  variant = "basic" =>
    \A n \in DOMAIN results :
      results[n].success <=>
        /\ HasField(results[n], "final_url")
        /\ \/ Contains(Domain, results[n].final_url)
           \/ results[n].strategy = "iframe"

\* C2 witness: an "iframe" result marked success on a page that never left,
\* next to a redirected result of another strategy.
C2_Witness ==
  /\ variant = "basic"
  /\ \E n \in DOMAIN results :
       /\ results[n].strategy = "iframe"
       /\ results[n].success
       /\ ~Contains(Domain, results[n].final_url)
  /\ \E n \in DOMAIN results :
       /\ results[n].strategy # "iframe"
       /\ results[n].success

\* C3: adaptive variant, among the results that carry a final_url, success
\* holds exactly when the final_url differs from the requested URL and contains
\* "simpleswap.io"; so an unchanged URL and any other destination are failures.
C3_AdaptiveClassification ==
  variant = "adaptive" =>
    \A n \in DOMAIN results :
      LET r == results[n]
      IN IF HasField(r, "final_url")
           THEN r.success <=>
                  /\ r.final_url # RequestUrl(variant, r.strategy)
                  /\ Contains(Domain, r.final_url)
           ELSE ~r.success

\* C3 witness: a run that recorded both a successful redirect and an
\* unchanged URL.
C3_Witness ==
  /\ variant = "adaptive"
  /\ \E n \in DOMAIN results : results[n].success
  /\ \E n \in DOMAIN results :
       /\ HasField(results[n], "final_url")
       /\ results[n].final_url = RequestUrl(variant, results[n].strategy)

\* C4: adaptive variant, no label has more than two entries, and every call
\* and every recorded result has attempt 1 or 2.
C4_AtMostTwoAttempts ==
  variant = "adaptive" =>
    /\ \A k \in DOMAIN strategies : Cardinality(EntriesOf(strategies[k])) <= 2
    /\ \A c \in DOMAIN trace : trace[c].attempt \in {1, 2}
    /\ \A n \in DOMAIN results : results[n].attempt \in {1, 2}

\* C4 witness: a label with two entries, after a second attempt that itself
\* met the retry condition.
C4_Witness ==
  /\ variant = "adaptive"
  /\ \E k \in DOMAIN strategies : Cardinality(EntriesOf(strategies[k])) = 2
  /\ \E c \in DOMAIN trace :
       /\ trace[c].attempt = 2
       /\ trace[c].stayed

\* C5: when the click raised in every call of a run that tried every strategy,
\* the results hold exactly one entry per strategy, in list order, each with
\* success false and the exception's string as its error.
ClickRaisedEverywhere ==
  /\ NoCallInFlight
  /\ \A k \in DOMAIN strategies : CallsOf(k) # {}
  /\ \A c \in DOMAIN trace : "click" \in trace[c].raised

C5_ClickFailuresRecorded ==
  ClickRaisedEverywhere =>
    /\ Len(results) = Len(strategies)
    /\ \A k \in DOMAIN strategies :
         /\ results[k].strategy = strategies[k]
         /\ ~results[k].success
         /\ HasField(results[k], "error")
         /\ results[k].error = ErrStr("click")

\* C5 witness: such a run, finished.
C5_Witness == ClickRaisedEverywhere /\ runPc = "done"

\* C6 (as claimed): no exception of a browser operation leaves the run.
C6_NoExceptionEscapes == runPc # "aborted" /\ escaped = ""

\* C7 (as claimed): once no call is in flight, every context that was acquired
\* is closed.  A context whose own close() raised is not held against the
\* code: only contexts close() was never awaited on are.
C7_ContextsClosedOnExit ==
  NoCallInFlight => \A c \in DOMAIN ctxs : ~ctxs[c].open \/ ctxs[c].closes > 0

\* The attempts executed so far: the calls that got their context and page and
\* entered the try block.  Those among them whose retry returned normally.
EnteredCalls == {c \in DOMAIN trace : trace[c].entered}
SupersededCalls == {c \in DOMAIN trace : trace[c].retry = "returned"}

\* C8 (as claimed): between attempts, the results hold exactly one entry per
\* attempt executed so far, the retry counting as an attempt of its own.
C8_OneResultPerAttempt ==
  NoCallInFlight => Len(results) = Cardinality(EnteredCalls)

\* C8 (amended): between attempts, the results hold one entry per attempt
\* executed so far, less the first attempts whose retry returned normally
\* (such a first attempt records nothing of its own).

C8_OneResultPerAttemptButRetried ==
  NoCallInFlight =>
    Len(results) = Cardinality(EnteredCalls) - Cardinality(SupersededCalls)

\* C8 witness: between attempts, after a retry that returned and after a retry
\* that raised.
C8_Witness ==
  /\ NoCallInFlight
  /\ runPc = "close_browser"
  /\ \E c \in DOMAIN trace : trace[c].retry = "returned"
  /\ \E c \in DOMAIN trace : trace[c].retry = "raised"

\* A strategy that is done, none of whose operations raised, and whose URL
\* read after the click was the requested one in every attempt.
QuietStrategy(k) ==
  /\ k < i
  /\ \A c \in CallsOf(k) :
       /\ trace[c].raised = {}
       /\ trace[c].read => trace[c].stayed

SaysNoRedirect(notes) ==
  \E n \in DOMAIN notes : Contains(<<"No redirect occurred">>, notes[n])

\* C9 (as claimed): in both variants such a strategy has exactly one entry,
\* with success false and non-empty notes saying that no redirect occurred.
C9_NoRedirectRecorded ==
  \A k \in DOMAIN strategies :
    QuietStrategy(k) =>
      /\ Cardinality(EntriesOf(strategies[k])) = 1
      /\ \A n \in EntriesOf(strategies[k]) :
           /\ ~results[n].success
           /\ results[n].notes # <<>>
           /\ SaysNoRedirect(results[n].notes)

\* C9 (amended): such a strategy has exactly one entry, whose final_url is the
\* requested URL; in the adaptive variant it has success false and notes
\* saying that no redirect occurred; in the basic variant its notes are empty
\* and its success is false unless the strategy is "iframe".
C9_NoRedirectRecordedPerVariant ==
  \A k \in DOMAIN strategies :
    QuietStrategy(k) =>
      /\ Cardinality(EntriesOf(strategies[k])) = 1
      /\ \A n \in EntriesOf(strategies[k]) :
           /\ results[n].final_url = RequestUrl(variant, strategies[k])
           /\ IF variant = "adaptive"
                THEN /\ ~results[n].success
                     /\ SaysNoRedirect(results[n].notes)
                ELSE /\ results[n].notes = <<>>
                     /\ results[n].success <=> (strategies[k] = "iframe")

\* C9 witness: a quiet strategy of the adaptive variant that went through the
\* retry.
C9_Witness ==
  /\ variant = "adaptive"
  /\ \E k \in DOMAIN strategies :
       /\ QuietStrategy(k)
       /\ \E c \in CallsOf(k) : trace[c].attempt = 2

\* C10 (as claimed): at most one context is open at any point of a run.  As
\* for C7, a context whose own close() raised is not counted.
LeftOpen == {c \in OpenContexts : ctxs[c].closes = 0}

C10_AtMostOneOpenContext == Cardinality(LeftOpen) <= 1

\* C11 (as claimed): a query that raises inside a polling iteration is
\* absorbed there and the monitoring goes on, so it never sends a call to its
\* except clause and no result carries it as its error.
C11_MonitorQueryAbsorbed ==
  /\ \A c \in DOMAIN trace : "query_selector_all" \notin trace[c].raised
  /\ \A n \in DOMAIN results :
       HasField(results[n], "error") =>
         results[n].error # ErrStr("query_selector_all")

\* The calls on the stack that have read the URL after the click, and so have
\* taken or passed the retry branch.
Decided == {d \in DOMAIN stack : trace[stack[d].call].read}
TookRetry(f) == trace[f.call].retry # "none"

\* "workingUrl is not defined" appears somewhere in the last RecentWindow lines.
NamedInTail(console_logs) ==
  LET tail == LastN(console_logs, RecentWindow)
  IN \E k \in DOMAIN tail : Contains(WorkingUrlErr, tail[k])

\* The most recent line of the tail that holds "error" (case-insensitively)
\* exists and names workingUrl.
LastErrorNamesWorkingUrl(console_logs) ==
  LET tail == LastN(console_logs, RecentWindow)
      errs == {k \in DOMAIN tail : IsErrorLog(tail[k])}
  IN /\ errs # {}
     /\ LET last == CHOOSE k \in errs : \A j \in errs : j <= k
        IN Contains(WorkingUrlErr, tail[last])

C13_NoContextClosedTwice ==
  [][\A c \in DOMAIN ctxs : ctxs'[c].closes > ctxs[c].closes => ctxs[c].open]_vars

====
